---- MODULE Spec2Model ----
(***************************************************************************)
(* A model of package mgo (github.com/thirathawat/mgo): the envelope-aware *)
(* generic collection of collection.go (Entity, newRecord, the option      *)
(* record, setUpdate, setSoftDelete, bindOptions and the collection        *)
(* methods) running against a document store, and the connection          *)
(* life cycle of mgo.go (readConfig, connect, New and its cleanup).        *)
(*                                                                         *)
(* Go maps are reference values: a bson.M stored in the option record is   *)
(* the caller's map, so the model keeps the maps in a heap and the option  *)
(* record holds references into it.                                        *)
(***************************************************************************)
EXTENDS Integers, Sequences, FiniteSets, TLC

\* ------------------------------------------------------------------ bounds
MaxTime == 2
MaxRecords == 2
MaxCalls == 3

\* ------------------------------------------------------------------ values
\* A BSON / Go value: k is its dynamic type, n a number, s a string or a
\* heap reference.
Missing == [k |-> "missing", n |-> 0, s |-> ""]   \* key not in the map
Null == [k |-> "nil", n |-> 0, s |-> ""]          \* Go nil / BSON null
Time(t) == [k |-> "time", n |-> t, s |-> ""]      \* time.Time
Str(x) == [k |-> "str", n |-> 0, s |-> x]
I64(i) == [k |-> "int", n |-> i, s |-> ""]
M(r) == [k |-> "M", n |-> 0, s |-> r]             \* bson.M, a reference
D(x) == [k |-> "D", n |-> 0, s |-> x]             \* bson.D, not a bson.M
Exists == [k |-> "exists", n |-> 1, s |-> ""]     \* bson.M{"$exists": true}
Stages(r) == [k |-> "stages", n |-> 1, s |-> r]   \* []bson.M{{"$match": r}}
OID(i) == [k |-> "oid", n |-> i, s |-> ""]        \* primitive.ObjectID

Keys == {"_id", "created_at", "update_at", "updated_at", "deleted_at", "name",
         "$set", "$unset"}

EmptyDoc == [key \in Keys |-> Missing]

\* primitive.NilObjectID, the zero identifier
NilObjectID == OID(0)

\* The width of the counter part of an ObjectID (3 bytes).
CounterMod == 2 ^ 24

\* ------------------------------------------------------------------ heap
\* The documents the caller owns and passes to its mutators.
FilterRefs == {"fAll", "fA", "fADel"}
UpdateRefs == {"uUnset", "uSet", "uSetD", "uSetNil"}
CallerRefs == FilterRefs \cup UpdateRefs \cup {"sUnset", "sName", "sort", "proj"}

\* The map a stamp allocates for the $set entry of update document u; "tmp"
\* is the map setUpdate / setSoftDelete allocate when Update is nil.
NewRef(u) ==
    CASE u = "uUnset" -> "nUnset"
      [] u = "uSet" -> "nSet"
      [] u = "uSetD" -> "nSetD"
      [] u = "uSetNil" -> "nSetNil"
      [] OTHER -> "nTmp"

LocalRefs == {"tmp", "nTmp"}
Refs == CallerRefs \cup {NewRef(u) : u \in UpdateRefs} \cup LocalRefs

InitHeap ==
    [r \in Refs |->
        CASE r = "fA" -> [EmptyDoc EXCEPT !["name"] = Str("a")]
          [] r = "fADel" -> [EmptyDoc EXCEPT !["name"] = Str("a"),
                                              !["deleted_at"] = Exists]
          [] r = "uUnset" -> [EmptyDoc EXCEPT !["$unset"] = M("sUnset")]
          [] r = "sUnset" -> [EmptyDoc EXCEPT !["name"] = Str("")]
          [] r = "uSet" -> [EmptyDoc EXCEPT !["$set"] = M("sName")]
          [] r = "sName" -> [EmptyDoc EXCEPT !["name"] = Str("b")]
          [] r = "uSetD" -> [EmptyDoc EXCEPT !["$set"] = D("name=b")]
          [] r = "uSetNil" -> [EmptyDoc EXCEPT !["$set"] = Null]
          [] r = "sort" -> [EmptyDoc EXCEPT !["name"] = I64(1)]
          [] r = "proj" -> [EmptyDoc EXCEPT !["name"] = I64(1)]
          [] OTHER -> EmptyDoc]

\* The documents a caller keeps and passes again.  A caller working on
\* records writes its update documents as literals, new maps at every call; a
\* caller exercising the options keeps them all.
Retained(c) ==
    IF c = "records" THEN CallerRefs \ (UpdateRefs \cup {"sUnset", "sName"})
    ELSE CallerRefs

\* After a call: a map no live reference reaches is garbage and its slot is
\* cleared; a literal is built anew for the next call.
Live(c, h, r) ==
    \/ r \in Retained(c)
    \/ \E u \in UpdateRefs \cap Retained(c) : r = NewRef(u) /\ h[u]["$set"] = M(r)

Collect(c, h) ==
    [r \in Refs |->
        IF Live(c, h, r) THEN h[r]
        ELSE IF r \in CallerRefs THEN InitHeap[r]
        ELSE EmptyDoc]

\* ------------------------------------------------------------------ option
OptFields == {"Filter", "Update", "Sort", "Projection", "Pipeline", "Skip", "Limit"}

\* &option{}: every field nil.
ZeroOption == [f \in OptFields |-> Null]

\* An Option (a func(*option)) assigns some fields of the option record.
WithFilter(r) == [fields |-> {"Filter"}, val |-> [ZeroOption EXCEPT !["Filter"] = M(r)]]
WithUpdate(r) == [fields |-> {"Update"}, val |-> [ZeroOption EXCEPT !["Update"] = M(r)]]
WithShape ==
    [fields |-> {"Sort", "Projection", "Pipeline", "Skip", "Limit"},
     val |-> [ZeroOption EXCEPT !["Sort"] = M("sort"), !["Projection"] = M("proj"),
                                !["Pipeline"] = Stages("fA"),
                                !["Skip"] = I64(1), !["Limit"] = I64(1)]]

\* The option lists a caller passes.  A caller working on records passes a
\* filter, an update, or both; a caller exercising the options also overrides
\* one mutator by a later one and shapes the query.
FilterLists(c) ==
    IF c = "records"
    THEN {<<>>, <<WithFilter("fAll")>>, <<WithFilter("fA")>>, <<WithFilter("fADel")>>}
    ELSE {<<>>, <<WithShape>>, <<WithFilter("fA"), WithShape>>}
            \cup {<<WithFilter(f)>> : f \in FilterRefs}

UpdateLists(c) ==
    IF c = "records"
    THEN {<<>>, <<WithUpdate("uSet")>>,
          <<WithFilter("fA"), WithUpdate("uSet")>>,
          <<WithFilter("fADel"), WithUpdate("uUnset")>>}
    ELSE FilterLists(c)
            \cup {<<WithUpdate(u)>> : u \in UpdateRefs}
            \cup {<<WithFilter(f), WithUpdate(u)>> : f \in FilterRefs, u \in UpdateRefs}
            \cup {<<WithUpdate("uUnset"), WithUpdate("uSet")>>,
                  <<WithFilter("fADel"), WithFilter("fA"), WithUpdate("uSet"), WithShape>>}

Apply(m, o) == [f \in OptFields |-> IF f \in m.fields THEN m.val[f] ELSE o[f]]

RECURSIVE applyAll(_, _)
applyAll(o, ms) == IF ms = <<>> THEN o ELSE applyAll(Apply(Head(ms), o), Tail(ms))

bindOptions(ms) == applyAll(ZeroOption, ms)

findOptions(o) == [f \in {"Sort", "Skip", "Limit", "Projection"} |-> o[f]]

\* o.Update = bson.M{} when it is nil (the first statement of both stamps).
initUpdate(st) ==
    IF st.o["Update"] = Null
    THEN [st EXCEPT !.o["Update"] = M("tmp"), !.h["tmp"] = EmptyDoc]
    ELSE st

\* A setUpdate that replaces the $set sub-document instead of merging into it.
setUpdateOverwrite(o, h, t) ==
    LET st == initUpdate([o |-> o, h |-> h, panic |-> FALSE])
        u == st.o["Update"].s
    IN  [st EXCEPT !.h[u]["$set"] = M(NewRef(u)),
                   !.h[NewRef(u)] = [EmptyDoc EXCEPT !["updated_at"] = Time(t)]]

\* A setUpdate that also resets deleted_at.
setUpdateUndelete(o, h, t) ==
    LET st == initUpdate([o |-> o, h |-> h, panic |-> FALSE])
        u == st.o["Update"].s
    IN  [st EXCEPT !.h[u]["$set"] = M(NewRef(u)),
                   !.h[NewRef(u)] = [EmptyDoc EXCEPT !["updated_at"] = Time(t),
                                                     !["deleted_at"] = Null]]

\* setUpdate on the pair (option, heap) at time t; panic is the failed type
\* assertion val.(bson.M).
setUpdate(o, h, t) ==
    LET st == initUpdate([o |-> o, h |-> h, panic |-> FALSE])
        u == st.o["Update"].s
        val == st.h[u]["$set"]
    IN  IF val = Missing
        THEN [st EXCEPT !.h[u]["$set"] = M(NewRef(u)),
                        !.h[NewRef(u)] = [EmptyDoc EXCEPT !["updated_at"] = Time(t)]]
        ELSE IF val.k = "M"
        THEN [st EXCEPT !.h[val.s]["updated_at"] = Time(t)]
        ELSE [st EXCEPT !.panic = TRUE]

\* A setSoftDelete that merges into an existing $set sub-document.
setSoftDeleteMerge(o, h, t) ==
    LET st == initUpdate([o |-> o, h |-> h, panic |-> FALSE])
        u == st.o["Update"].s
        val == st.h[u]["$set"]
    IN  IF val.k = "M"
        THEN [st EXCEPT !.h[val.s]["deleted_at"] = Time(t)]
        ELSE [st EXCEPT !.h[u]["$set"] = M(NewRef(u)),
                        !.h[NewRef(u)] = [EmptyDoc EXCEPT !["deleted_at"] = Time(t)]]

setSoftDelete(o, h, t) ==
    LET st == initUpdate([o |-> o, h |-> h, panic |-> FALSE])
        u == st.o["Update"].s
    IN  [st EXCEPT !.h[u]["$set"] = M(NewRef(u)),
                   !.h[NewRef(u)] = [EmptyDoc EXCEPT !["deleted_at"] = Time(t)]]

\* The sub-document under a top-level operator of the update document, as the
\* driver encodes it.
SubDoc(h, upd, op) ==
    IF upd = Null THEN EmptyDoc
    ELSE IF h[upd.s][op].k = "M" THEN h[h[upd.s][op].s]
    ELSE EmptyDoc

\* ------------------------------------------------------------------ store
\* The store's query and update semantics for the documents of the model.
Matches(h, d, f) ==
    LET fdoc == IF f = Null THEN EmptyDoc ELSE h[f.s]
    IN  \A key \in Keys :
            \/ fdoc[key] = Missing
            \/ IF fdoc[key] = Exists THEN d[key] # Missing ELSE d[key] = fdoc[key]

Matching(h, docs, f) == {d \in docs : Matches(h, d, f)}

\* $set and $unset on the same path: the store rejects the update.
Conflict(set, unset) == \E key \in Keys : set[key] # Missing /\ unset[key] # Missing

ApplyUpdate(d, set, unset) ==
    [key \in Keys |->
        IF unset[key] # Missing THEN Missing
        ELSE IF set[key] # Missing THEN set[key]
        ELSE d[key]]

\* UpdateOne / DeleteOne act on one matching document, the Many forms on all.
Targets(m, many) == IF many \/ m = {} THEN {m} ELSE {{d} : d \in m}

\* ------------------------------------------------------------------ entity
\* primitive.NewObjectID(): the timestamp and the process counter.
NewObjectID(t, c) == OID(t * CounterMod + c)

\* newRecord(v): the envelope, with the two time.Now() readings t1 and t2, and
\* the value's own field inlined.
newRecord(v, id, t1, t2) ==
    [EmptyDoc EXCEPT !["_id"] = id,
                     !["created_at"] = Time(t1),
                     !["update_at"] = Time(t2),
                     !["deleted_at"] = Null,
                     !["name"] = Str(v)]

\* Decoding a stored document into a T that embeds Entity (the bson tags).
DecodeEntity(d) ==
    [ID |-> d["_id"],
     CreatedAt |-> IF d["created_at"].k = "time" THEN d["created_at"].n ELSE 0,
     UpdatedAt |-> IF d["update_at"].k = "time" THEN d["update_at"].n ELSE 0,
     DeletedAt |-> IF d["deleted_at"].k = "time" THEN d["deleted_at"] ELSE Null,
     Name |-> d["name"]]

\* ------------------------------------------------------------------ state
VARIABLES
    store,      \* the documents of the underlying collection
    heap,       \* the maps of the Go heap
    now,        \* the clock time.Now() reads
    counter,    \* the ObjectID counter of the process
    ncalls,     \* the number of collection calls made
    caller,     \* the kind of caller: which option lists it passes
    last        \* the last collection call: what it bound, submitted and got

collVars == <<store, heap, now, counter, ncalls, caller, last>>

Values == {"a", "b"}

NoCall ==
    [op |-> "none", panicked |-> FALSE, err |-> FALSE, submitted |-> FALSE,
     bound |-> ZeroOption, opt |-> ZeroOption,
     boundSet |-> EmptyDoc, boundUnset |-> EmptyDoc,
     set |-> EmptyDoc, unset |-> EmptyDoc,
     at |-> 0, size |-> 0, before |-> {}, handed |-> {}, found |-> {}, count |-> 0]

InitColl(c) ==
    /\ caller = c
    /\ store = {}
    /\ heap = InitHeap
    /\ now = 1
    /\ counter = CounterMod - 1
    /\ ncalls = 0
    /\ last = NoCall

CanCall == ncalls < MaxCalls /\ last.op = "none"

\* The call returns to the caller; its option record is dropped.
Return ==
    /\ last.op # "none"
    /\ last' = NoCall
    /\ UNCHANGED <<store, heap, now, counter, ncalls, caller>>

\* The clock advances between calls.
Tick ==
    /\ last.op = "none"
    /\ now < MaxTime
    /\ now' = now + 1
    /\ UNCHANGED <<store, heap, counter, ncalls, caller, last>>

\* ------------------------------------------------------------------ inserts
\* The clock may advance by d between the two time.Now() calls of newRecord.
Advances == {d \in 0..1 : now + d <= MaxTime}

InsertOne ==
    /\ CanCall
    /\ Cardinality(store) < MaxRecords
    /\ \E v \in Values, d \in Advances, fail \in BOOLEAN :
        LET rec == newRecord(v, NewObjectID(now, counter), now, now + d)
            dup == \E x \in store : x["_id"] = rec["_id"]
        IN  /\ store' = IF fail \/ dup THEN store ELSE store \cup {rec}
            /\ now' = now + d
            /\ last' = [NoCall EXCEPT !.op = "InsertOne", !.submitted = TRUE,
                                      !.err = fail \/ dup, !.at = now,
                                      !.size = Cardinality(store), !.handed = {rec}]
    /\ counter' = (counter + 1) % CounterMod
    /\ ncalls' = ncalls + 1
    /\ UNCHANGED <<heap, caller>>

\* InsertMany of the models a, b (of none: the driver refuses an empty slice).
InsertMany ==
    /\ CanCall
    /\ \E vs \in {<<>>, <<"a", "b">>} :
        LET n == Len(vs) IN
        /\ Cardinality(store) + n <= MaxRecords
        /\ \E d \in Advances, fail \in BOOLEAN :
            LET rec(i) == newRecord(vs[i], NewObjectID(now, (counter + i - 1) % CounterMod),
                                    now, IF i = n THEN now + d ELSE now)
                docs == {rec(i) : i \in 1..n}
                dup == \/ Cardinality({x["_id"] : x \in docs}) # n
                       \/ \E x \in store, y \in docs : x["_id"] = y["_id"]
                bad == fail \/ dup \/ n = 0
            IN  /\ store' = IF bad THEN store ELSE store \cup docs
                /\ now' = IF n = 0 THEN now ELSE now + d
                /\ last' = [NoCall EXCEPT !.op = "InsertMany", !.submitted = (n # 0),
                                          !.err = bad, !.at = now,
                                          !.size = Cardinality(store), !.handed = docs]
        /\ counter' = (counter + n) % CounterMod
    /\ ncalls' = ncalls + 1
    /\ UNCHANGED <<heap, caller>>

\* ------------------------------------------------------------------ writes
\* The store's UpdateOne / UpdateMany with opt.Filter and opt.Update, for the
\* option o0 that bindOptions gave and the stamp's result st.
Submit(op, many, o0, st, fail) ==
    LET set == SubDoc(st.h, st.o["Update"], "$set")
        unset == SubDoc(st.h, st.o["Update"], "$unset")
        m == Matching(st.h, store, st.o["Filter"])
        bad == fail \/ Conflict(set, unset)
        call == [NoCall EXCEPT !.op = op, !.bound = o0, !.opt = st.o, !.at = now,
                               !.boundSet = SubDoc(heap, o0["Update"], "$set"),
                               !.boundUnset = SubDoc(heap, o0["Update"], "$unset"),
                               !.size = Cardinality(store)]
    IN  /\ heap' = Collect(caller, st.h)
        /\ IF st.panic
           THEN /\ store' = store
                /\ last' = [call EXCEPT !.panicked = TRUE]
           ELSE \E S \in Targets(m, many) :
                /\ store' = IF bad THEN store
                            ELSE (store \ S) \cup {ApplyUpdate(d, set, unset) : d \in S}
                /\ last' = [call EXCEPT !.submitted = TRUE, !.err = bad,
                                        !.set = set, !.unset = unset,
                                        !.before = IF bad THEN {} ELSE S]
        /\ ncalls' = ncalls + 1
        /\ UNCHANGED <<now, counter, caller>>

UpdateOne ==
    /\ CanCall
    /\ \E ms \in UpdateLists(caller), fail \in BOOLEAN :
        LET opt == bindOptions(ms)
        IN  Submit("UpdateOne", FALSE, opt, setUpdate(opt, heap, now), fail)

UpdateMany ==
    /\ CanCall
    /\ \E ms \in UpdateLists(caller), fail \in BOOLEAN :
        LET opt == bindOptions(ms)
        IN  Submit("UpdateMany", TRUE, opt, setUpdate(opt, heap, now), fail)

SoftDeleteOne ==
    /\ CanCall
    /\ \E ms \in UpdateLists(caller), fail \in BOOLEAN :
        LET opt == bindOptions(ms)
        IN  Submit("SoftDeleteOne", FALSE, opt, setSoftDelete(opt, heap, now), fail)

SoftDeleteMany ==
    /\ CanCall
    /\ \E ms \in UpdateLists(caller), fail \in BOOLEAN :
        LET opt == bindOptions(ms)
        IN  Submit("SoftDeleteMany", TRUE, opt, setSoftDelete(opt, heap, now), fail)

\* DeleteOne and DeleteMany: bindOptions, then the store's delete with opt.Filter.
Delete(op, many) ==
    /\ CanCall
    /\ \E ms \in FilterLists(caller), fail \in BOOLEAN :
        LET o0 == bindOptions(ms)
            m == Matching(heap, store, o0["Filter"])
        IN  \E S \in Targets(m, many) :
            /\ store' = IF fail THEN store ELSE store \ S
            /\ last' = [NoCall EXCEPT !.op = op, !.bound = o0, !.opt = o0, !.at = now,
                                      !.submitted = TRUE, !.err = fail,
                                      !.size = Cardinality(store),
                                      !.before = IF fail THEN {} ELSE S]
    /\ ncalls' = ncalls + 1
    /\ UNCHANGED <<heap, now, counter, caller>>

DeleteOne == Delete("DeleteOne", FALSE)

DeleteMany == Delete("DeleteMany", TRUE)

\* ------------------------------------------------------------------ reads
Read(op, o0, err, found, count) ==
    /\ last' = [NoCall EXCEPT !.op = op, !.bound = o0, !.opt = o0, !.at = now,
                              !.submitted = TRUE, !.err = err,
                              !.size = Cardinality(store),
                              !.found = found, !.count = count]
    /\ ncalls' = ncalls + 1
    /\ UNCHANGED <<store, heap, now, counter, caller>>

\* FindOne: the first matching document, decoded; none is mongo.ErrNoDocuments.
FindOne ==
    /\ CanCall
    /\ \E ms \in FilterLists(caller), fail \in {FALSE} :
        LET o0 == bindOptions(ms)
            m == Matching(heap, store, o0["Filter"])
        IN  IF fail \/ m = {}
            THEN Read("FindOne", o0, TRUE, {}, 0)
            ELSE \E d \in m : Read("FindOne", o0, FALSE, {DecodeEntity(d)}, 1)

\* The number of documents Find returns under Skip and Limit (nil: no offset,
\* no cap).
Window(fo, n) ==
    LET skip == IF fo["Skip"] = Null THEN 0 ELSE fo["Skip"].n
        rest == IF n > skip THEN n - skip ELSE 0
    IN  IF fo["Limit"] = Null \/ fo["Limit"].n >= rest THEN rest ELSE fo["Limit"].n

FindMany ==
    /\ CanCall
    /\ \E ms \in FilterLists(caller), fail \in {FALSE} :
        LET o0 == bindOptions(ms)
            m == Matching(heap, store, o0["Filter"])
            k == Window(findOptions(o0), Cardinality(m))
        IN  IF fail
            THEN Read("FindMany", o0, TRUE, {}, 0)
            ELSE \E S \in SUBSET m :
                    /\ Cardinality(S) = k
                    /\ Read("FindMany", o0, FALSE, {DecodeEntity(d) : d \in S}, k)

\* A Count that leaves soft-deleted documents out.
CountNotDeleted ==
    /\ CanCall
    /\ \E ms \in FilterLists(caller), fail \in BOOLEAN :
        LET o0 == bindOptions(ms)
            m == {d \in Matching(heap, store, o0["Filter"]) : d["deleted_at"].k # "time"}
        IN  Read("Count", o0, fail, {}, IF fail THEN 0 ELSE Cardinality(m))

Count ==
    /\ CanCall
    /\ \E ms \in FilterLists(caller), fail \in BOOLEAN :
        LET o0 == bindOptions(ms)
            m == Matching(heap, store, o0["Filter"])
        IN  Read("Count", o0, fail, {}, IF fail THEN 0 ELSE Cardinality(m))

\* Aggregate: the pipeline is nil or one $match stage.
Aggregate ==
    /\ CanCall
    /\ \E ms \in FilterLists(caller), fail \in {FALSE} :
        LET o0 == bindOptions(ms)
            p == o0["Pipeline"]
            m == IF p = Null THEN store ELSE Matching(heap, store, M(p.s))
        IN  IF fail
            THEN Read("Aggregate", o0, TRUE, {}, 0)
            ELSE Read("Aggregate", o0, FALSE, {DecodeEntity(d) : d \in m}, Cardinality(m))

\* ------------------------------------------------------------------ connection
VARIABLES
    env,        \* the configuration keys set in the environment
    pc,         \* where New is
    cfg,        \* the config readConfig returned: per key, set or empty
    connects,   \* mongo.Connect calls made
    pings,      \* Ping calls made
    open,       \* the client connected and not yet disconnected
    cleanup     \* New handed the caller a cleanup function

connVars == <<env, pc, cfg, connects, pings, open, cleanup>>

vars == <<store, heap, now, counter, ncalls, caller, last, env, pc, cfg, connects, pings, open, cleanup>>

ConfigKeys == {"ADDRS", "NAME", "AUTH_SOURCE", "USER", "PASSWORD"}

InitConn(e) ==
    /\ env = e
    /\ pc = "start"
    /\ cfg = [key \in ConfigKeys |-> FALSE]
    /\ connects = 0
    /\ pings = 0
    /\ open = FALSE
    /\ cleanup = FALSE

\* readConfig: envconfig.MustProcess fills each field from its variable; the
\* fields carry no `required` tag, so an unset variable leaves "" and no error.
readConfig ==
    /\ pc = "start"
    /\ cfg' = [key \in ConfigKeys |-> key \in env]
    /\ pc' = "configured"
    /\ UNCHANGED <<env, connects, pings, open, cleanup>>

\* connect, after readConfig: mongo.Connect, and on its error return.
Connect ==
    /\ pc = "configured"
    /\ connects' = connects + 1
    /\ \E ok \in BOOLEAN :
        /\ open' = ok
        /\ pc' = IF ok THEN "connected" ELSE "failed"
    /\ UNCHANGED <<env, cfg, pings, cleanup>>

\* connect: c.Ping; on its error connect returns nil, err and New returns it.
Ping ==
    /\ pc = "connected"
    /\ pings' = pings + 1
    /\ \E ok \in BOOLEAN : pc' = IF ok THEN "pinged" ELSE "failed"
    /\ UNCHANGED <<env, cfg, connects, open, cleanup>>

\* New returns the database and the cleanup closure.
NewReturn ==
    /\ pc = "pinged"
    /\ pc' = "ready"
    /\ cleanup' = TRUE
    /\ UNCHANGED <<env, cfg, connects, pings, open>>

\* The cleanup closure: c.Disconnect under a 5 second timeout.
Cleanup ==
    /\ pc = "ready"
    /\ cleanup
    /\ open' = FALSE
    /\ pc' = "closed"
    /\ UNCHANGED <<env, cfg, connects, pings, cleanup>>

\* ------------------------------------------------------------------ specs
Init == InitColl("records") /\ InitConn(ConfigKeys)

Next ==
    \/ (Tick /\ UNCHANGED connVars)
    \/ (Return /\ UNCHANGED connVars)
    \/ (InsertOne /\ UNCHANGED connVars)
    \/ (InsertMany /\ UNCHANGED connVars)
    \/ (UpdateOne /\ UNCHANGED connVars)
    \/ (UpdateMany /\ UNCHANGED connVars)
    \/ (SoftDeleteOne /\ UNCHANGED connVars)
    \/ (SoftDeleteMany /\ UNCHANGED connVars)
    \/ (DeleteOne /\ UNCHANGED connVars)
    \/ (DeleteMany /\ UNCHANGED connVars)
    \/ (FindOne /\ UNCHANGED connVars)
    \/ (FindMany /\ UNCHANGED connVars)
    \/ (Count /\ UNCHANGED connVars)
    \/ (Aggregate /\ UNCHANGED connVars)

Spec == Init /\ [][Next]_vars

\* The stamped calls of a caller exercising the options.
InitOptions == InitColl("options") /\ InitConn(ConfigKeys)

NextOptions ==
    \/ (Tick /\ UNCHANGED connVars)
    \/ (Return /\ UNCHANGED connVars)
    \/ (UpdateOne /\ UNCHANGED connVars)
    \/ (UpdateMany /\ UNCHANGED connVars)
    \/ (SoftDeleteOne /\ UNCHANGED connVars)
    \/ (SoftDeleteMany /\ UNCHANGED connVars)

SpecOptions == InitOptions /\ [][NextOptions]_vars

\* New, from any environment.
InitNew == InitColl("records") /\ \E e \in SUBSET ConfigKeys : InitConn(e)

NextNew ==
    \/ (readConfig /\ UNCHANGED collVars)
    \/ (Connect /\ UNCHANGED collVars)
    \/ (Ping /\ UNCHANGED collVars)
    \/ (NewReturn /\ UNCHANGED collVars)
    \/ (Cleanup /\ UNCHANGED collVars)

SpecNew == InitNew /\ [][NextNew]_vars

\* ------------------------------------------------------------------ claims
Inserts == {"InsertOne", "InsertMany"}
Updates == {"UpdateOne", "UpdateMany"}
SoftDeletes == {"SoftDeleteOne", "SoftDeleteMany"}

IsTime(v) == v.k = "time"

FilterIsEmpty(f) == f = Null \/ heap[f.s] = EmptyDoc

\* C1: every record an insert hands to the store has a non-nil identifier that
\* no other record carries, created_at equal to its updated-at field, and a
\* nil deleted_at.
C1_InsertEnvelope ==
    last.op \in Inserts =>
        \A r \in last.handed :
            /\ r["_id"] # NilObjectID
            /\ \A x \in (store \cup last.handed) \ {r} : x["_id"] # r["_id"]
            /\ r["created_at"] = r["update_at"]
            /\ r["deleted_at"] = Null

\* C2: the Update an UpdateOne / UpdateMany submits has a $set holding
\* updated_at = the time of the call and every $set field the mutators left,
\* keeps the other top-level operator, and the Filter is the mutators' Filter.
C2_UpdateStamp ==
    (last.op \in Updates /\ last.submitted) =>
        /\ last.set["updated_at"] = Time(last.at)
        /\ \A key \in Keys \ {"updated_at"} : last.set[key] = last.boundSet[key]
        /\ last.unset = last.boundUnset
        /\ last.opt["Filter"] = last.bound["Filter"]

C2_Witness ==
    /\ last.op \in Updates
    /\ last.submitted
    /\ last.boundSet["name"] = Str("b")
    /\ last.set["name"] = Str("b")
    /\ last.bound["Filter"] # Null

\* C3: after an UpdateOne / UpdateMany, every record it matched has an
\* updated-at (as a find decodes it into the envelope) greater than before.
C3_UpdatedAtAdvances ==
    (last.op \in Updates /\ last.submitted /\ ~last.err) =>
        \A d \in last.before :
            \E x \in store :
                /\ x["_id"] = d["_id"]
                /\ DecodeEntity(x).UpdatedAt > DecodeEntity(d).UpdatedAt

\* C4: the Update a SoftDeleteOne / SoftDeleteMany submits has $set equal to
\* exactly {deleted_at: the time of the call}, and the stamp leaves Filter,
\* Sort, Projection, Pipeline, Skip and Limit as the mutators left them.
C4_SoftDeleteStamp ==
    (last.op \in SoftDeletes /\ last.submitted) =>
        /\ last.set = [EmptyDoc EXCEPT !["deleted_at"] = Time(last.at)]
        /\ \A f \in OptFields \ {"Update"} : last.opt[f] = last.bound[f]

C4_Witness ==
    /\ last.op \in SoftDeletes
    /\ last.submitted
    /\ last.boundSet["name"] = Str("b")
    /\ last.bound["Limit"] # Null
    /\ last.bound["Filter"] # Null

\* C5: a record whose deleted_at is a time keeps a deleted_at that is a time in
\* every step that leaves the record in the store.
C5_DeletedAtKept ==
    [][\A d \in store :
          IsTime(d["deleted_at"]) =>
              \A x \in store' : x["_id"] = d["_id"] => IsTime(x["deleted_at"])]_vars

C5_Witness ==
    /\ last.op \in Updates
    /\ ~last.err
    /\ \E d \in last.before :
          /\ IsTime(d["deleted_at"])
          /\ \E x \in store : x["_id"] = d["_id"] /\ IsTime(x["deleted_at"]) /\ x # d

\* C6: Count with an empty Filter is the number of records in the collection,
\* a soft-delete removes none of them, and a FindOne for {name: a, deleted_at:
\* {$exists: true}} finds the soft-deleted record named a.
C6_SoftDeleteKeepsRecords ==
    /\ (last.op = "Count" /\ ~last.err /\ FilterIsEmpty(last.bound["Filter"])) =>
            last.count = Cardinality(store)
    /\ (last.op \in SoftDeletes) =>
            /\ Cardinality(store) = last.size
            /\ \A d \in last.before : \E x \in store : x["_id"] = d["_id"]
    /\ (/\ last.op = "FindOne"
        /\ last.bound["Filter"] = M("fADel")
        /\ \E d \in store : d["name"] = Str("a") /\ IsTime(d["deleted_at"])) =>
            (~last.err /\ last.found # {})

C6_Witness ==
    /\ last.op = "Count"
    /\ ~last.err
    /\ last.bound["Filter"] = M("fAll")
    /\ last.count = 1
    /\ \E d \in store : d["name"] = Str("a") /\ IsTime(d["deleted_at"])

\* C7: what a stamped call submits is what its own mutators and the time give
\* on the documents as the caller wrote them, and no call changes a document
\* the caller owns.
C7_CallScoped ==
    /\ [](last.submitted /\ last.op \in Updates =>
            LET st == setUpdate(last.bound, InitHeap, last.at)
            IN  last.set = SubDoc(st.h, st.o["Update"], "$set"))
    /\ [][\A r \in CallerRefs : heap'[r] = heap[r]]_vars

\* C8: with a configuration key missing from the environment, configuration
\* loading fails and New makes no Connect and no Ping.
C8_RequiredConfig ==
    env # ConfigKeys => (pc \in {"start", "failed"} /\ connects = 0 /\ pings = 0)

\* C9: an UpdateOne / UpdateMany always returns; the stamp never panics.
C9_UpdateReturns == last.op \in Updates => ~last.panicked

\* C10: a client New connected is disconnected by the cleanup function, and is
\* disconnected already when New returns an error.
C10_ClientReleased ==
    /\ pc = "ready" => cleanup
    /\ pc = "closed" => ~open
    /\ pc = "failed" => ~open

====
